---- MODULE Spec2Model ----
(***************************************************************************)
(* A model of the go-cache package: a key/value store whose two maps (the  *)
(* items and the expiry timers) are each owned by one goroutine that       *)
(* receives closures over an unbuffered channel and runs them one at a     *)
(* time.  Callers, fired timers and the lanes are the processes.           *)
(***************************************************************************)
EXTENDS Integers, Sequences, FiniteSets, TLC

\* ------------------------------------------------------------- bounds
\* Keys are strings, modelled as sequences of digits: "1", "10", "2".
KeySet == {<<1, 0>>, <<2>>}
ValSet == {1, 2}
\* Calls in progress at once: each runs in a slot, a new call takes the first free one.
Callers == {1, 2}
\* Operations the callers start in one run, and timers created in one run.
MaxOps == 3
MaxTimers == 2
\* Ticks the ticker of ClearEvery produces in one run.
MaxTicks == 2

\* The zero value of T (a nil interface): what a map read of an absent key gives.
Nil == 0

VARIABLES
    items,      \* loopItemOps' map: key -> value
    expiries,   \* loopExpiryOps' map: key -> timer
    timers,     \* every *time.Timer made by an option, and its goroutine
    itemOp,     \* the closure loopItemOps has received and is running
    expiryOp,   \* the closure loopExpiryOps has received and is running
    pc,         \* each caller's position in its operation
    op,         \* each caller's operation in progress
    reply,      \* each caller's result channel(s), buffered, capacity 1
    nOps,       \* operations started so far
    nTimers,    \* timers reserved so far
    ticker,     \* the *time.Ticker of ClearEvery and the goroutine that ranges over its channel
    \* History, read by the properties only:
    last,       \* per key, the last write call that returned and that no later call disturbs
    cleared,    \* a Clear has returned and no Set has been in progress since
    setVal,     \* per timer, the value passed to the Set call that made it
    removed     \* the running timer functions whose delete loopItemOps has executed

vars == <<items, expiries, timers, itemOp, expiryOp, pc, op, reply, nOps, nTimers, ticker,
          last, cleared, setVal, removed>>

Idle == [kind |-> "idle"]
NoReply == [kind |-> "none"]
NoTimer == [st |-> "none"]
EmptyMap == [k \in {} |-> Nil]
TimerIds == 1..MaxTimers
\* ClearEvery has not been called.
NoTicker == [st |-> "none", c |-> 0, pc |-> "recv", n |-> 0, d |-> 0, k |-> 0]

\* ------------------------------------------------------------- maps
Put(m, k, v) == [x \in (DOMAIN m) \cup {k} |-> IF x = k THEN v ELSE m[x]]
Remove(m, k) == [x \in (DOMAIN m) \ {k} |-> m[x]]
\* items[key] of Go: the zero value when the key is absent.
Lookup(m, k) == IF k \in DOMAIN m THEN m[k] ELSE Nil

\* ------------------------------------------------------------- strings
\* Go's string order: byte-wise lexicographic, a proper prefix first.
RECURSIVE StrLess(_, _)
StrLess(s, t) ==
    IF t = <<>> THEN FALSE
    ELSE IF s = <<>> THEN TRUE
    ELSE IF Head(s) # Head(t) THEN Head(s) < Head(t)
    ELSE StrLess(Tail(s), Tail(t))

\* Insert x into the ascending sequence s.
RECURSIVE Insert(_, _)
Insert(x, s) ==
    IF s = <<>> THEN <<x>>
    ELSE IF StrLess(Head(s), x) THEN <<Head(s)>> \o Insert(x, Tail(s))
    ELSE <<x>> \o s

\* sort.Strings: the ascending arrangement of s.
RECURSIVE SortStrings(_)
SortStrings(s) ==
    IF s = <<>> THEN <<>> ELSE Insert(Head(s), SortStrings(Tail(s)))

\* The orders in which "for k := range items" may visit the keys.
Orders(S) == {s \in [1..Cardinality(S) -> S] : \A i, j \in DOMAIN s : i # j => s[i] # s[j]}

\* ------------------------------------------------------------- timers
\* A timer that will do nothing more: stopped before it fired, or its function
\* has returned (after calling afterFunc with arg; Nil when it had no afterFunc).
Stopped(cb) == [st |-> "stopped", cb |-> cb]
Done(arg) == [st |-> "done", arg |-> arg]

\* (Mutant: a Stop that leaves the timer running.)
StopNot(tm, t) == tm
\* timer.Stop(): a timer that has not fired never will.
Stop(tm, t) ==
    IF tm[t].st = "pending" THEN [tm EXCEPT ![t] = Stopped(tm[t].cb)] ELSE tm

\* time.AfterFunc(expiry, f): a new pending timer; f captures key and val.
NewTimer(k, v, cb) ==
    [st |-> "pending", key |-> k, val |-> v, cb |-> cb]

\* (Mutant: afterFunc is given the value stored at fire time.)
CallbackArgStored(tm) == Lookup(items, tm.key)
\* afterFunc(val): the value the option's closure captured.
CallbackArg(tm) == tm.val

\* ------------------------------------------------------------- closures
\* The closure Set and Delete send to expiryOps first.  from and prev are history:
\* the caller slot that sent it (0: a timer's function) and, for a Set with no
\* options, the timer of the expiring Set on the same key that returned before it.
CancelOp(k, from, prev) == [kind |-> "cancel", key |-> k, from |-> from, prev |-> prev]
\* The closure an Expire or AfterFunc option sends to expiryOps.
SchedOp(k, v, cb, t) == [kind |-> "sched", key |-> k, val |-> v, cb |-> cb, tid |-> t]
SetOp(k, v) == [kind |-> "set", key |-> k, val |-> v]
\* by is history: the timer whose function sent it (0: a caller).
DeleteOp(k, by) == [kind |-> "delete", key |-> k, by |-> by]
ClearOp == [kind |-> "clear"]
ReadOp(kind, k, c) == [kind |-> kind, key |-> k, from |-> c]

ReadKinds == {"Get", "GetOK", "Items", "IsEmpty", "Size", "Keys"}
KeyedReads == {"Get", "GetOK"}

\* func(expiries) { if timer, ok := expiries[key]; ok { timer.Stop(); delete(expiries, key) } }
CancelTimers(e, tm, k) == IF k \in DOMAIN e THEN Stop(tm, e[k]) ELSE tm
\* (Mutant: a cancel closure that stops the timer and keeps the handle.)
CancelExpiriesKeep(e, k) == e
CancelExpiries(e, k) == IF k \in DOMAIN e THEN Remove(e, k) ELSE e

\* func(expiries) { if timer, ok := expiries[key]; ok { timer.Stop() }; expiries[key] = time.AfterFunc(...) }
\* (Mutant: a schedule closure that does not stop the timer it replaces.)
SchedTimersNoStop(e, tm, o) == [tm EXCEPT ![o.tid] = NewTimer(o.key, o.val, o.cb)]
SchedTimers(e, tm, o) ==
    LET stopped == IF o.key \in DOMAIN e THEN Stop(tm, e[o.key]) ELSE tm
    IN  [stopped EXCEPT ![o.tid] = NewTimer(o.key, o.val, o.cb)]
SchedExpiries(e, o) == Put(e, o.key, o.tid)

\* The write closures of Set, Clear and Delete over the item map.
\* (Mutants: a Set that leaves an existing entry alone; a Clear that stops after
\* the first key; a Delete that removes nothing; a Delete that removes every key.)
ApplySetIfAbsent(m, k, v) == IF k \in DOMAIN m THEN m ELSE Put(m, k, v)
\* (Mutant: a write closure of Set that writes nothing.)
ApplySetDrop(m, k, v) == m
ApplySet(m, k, v) == Put(m, k, v)
ApplyClearOne(m) == IF m = EmptyMap THEN m ELSE Remove(m, CHOOSE k \in DOMAIN m : TRUE)
ApplyClear(m) == EmptyMap
ApplyDeleteKeep(m, k) == m
ApplyDeleteAll(m, k) == EmptyMap
ApplyDelete(m, k) == IF k \in DOMAIN m THEN Remove(m, k) ELSE m

\* What each read closure puts into its result channel(s), given the order
\* in which the map is ranged over.
GetReply(m, k) == [kind |-> "Get", val |-> Lookup(m, k)]
GetOKReply(m, k) == [kind |-> "GetOK", val |-> Lookup(m, k), ok |-> k \in DOMAIN m]
\* cp is a fresh map (live: the reply is the lane's own map, which it is not).
ItemsReply(m) == [kind |-> "Items", live |-> FALSE, map |-> [k \in DOMAIN m |-> m[k]]]
IsEmptyReply(m) == [kind |-> "IsEmpty", b |-> Cardinality(DOMAIN m) = 0]
SizeReply(m) == [kind |-> "Size", n |-> Cardinality(DOMAIN m)]
\* (Mutant: Keys without the sort.)
KeysReplyUnsorted(order) == [kind |-> "Keys", keys |-> order]
KeysReply(order) == [kind |-> "Keys", keys |-> SortStrings(order)]

ReadReply(o, m, order) ==
    CASE o.kind = "Get" -> GetReply(m, o.key)
      [] o.kind = "GetOK" -> GetOKReply(m, o.key)
      [] o.kind = "Items" -> ItemsReply(m)
      [] o.kind = "IsEmpty" -> IsEmptyReply(m)
      [] o.kind = "Size" -> SizeReply(m)
      [] o.kind = "Keys" -> KeysReply(order)

\* ------------------------------------------------------------- history
\* What is known of a key from the calls that have returned.  "set": a Set of
\* val returned (tid: the timer of its last option, 0 when it had none), and no
\* caller's Set or Delete of the key nor a Clear has been in progress since;
\* tclean: no other timer of the key has been running its function since;
\* sclean: nor while the call was in progress;
\* solo: no other caller's Set or Delete of the key, and no Clear, overlapped the call;
\* armed: the call had no options, followed an expiring Set of the key, and that
\* Set's timer had not fired when the call's cancel closure ran.  "del": a
\* Delete (by "delete"), a Clear ("clear") or the function of the timer of the
\* last Set ("timer") returned, and no Set of the key has been in progress since.
NoTrack == [w |-> "none"]
SetTrack(v, t, tclean, sclean, armed, solo) ==
    [w |-> "set", val |-> v, tid |-> t, tclean |-> tclean, sclean |-> sclean,
     armed |-> armed, solo |-> solo]
DelTrack(by) == [w |-> "del", by |-> by]

\* A caller other than c is inside Set(k, ...) or Delete(k).
SetBusy(c, k) == \E d \in Callers \ {c} : pc[d] \in {"write", "option"} /\ op[d].key = k
DelBusy(c, k) == \E d \in Callers \ {c} : pc[d] = "delete" /\ op[d].key = k
\* A timer of k has fired and its function has not returned.
InFlight(k) == \E t \in TimerIds : timers[t].st = "fired" /\ timers[t].key = k
\* The calls a new Set or Delete of k by c overlaps are no longer solo.
Overlap(c, k) ==
    [d \in Callers |-> IF d # c /\ pc[d] \in {"write", "option"} /\ op[d].key = k
                         THEN [op[d] EXCEPT !.solo = FALSE] ELSE op[d]]
\* The value passed to Set is kept only while the timer can still call back.
Forget(tm, sv) == [t \in TimerIds |-> IF tm[t].st \in {"stopped", "done"} THEN Nil ELSE sv[t]]
\* The function of timer t of key k has returned.
Finished(t, k) ==
    [last EXCEPT ![k] = IF last[k].w = "set" /\ last[k].tid = t THEN DelTrack("timer") ELSE last[k]]

\* ------------------------------------------------------------- state
Init ==
    /\ items = EmptyMap
    /\ expiries = [k \in {} |-> 0]
    /\ timers = [t \in TimerIds |-> NoTimer]
    /\ itemOp = Idle
    /\ expiryOp = Idle
    /\ pc = [c \in Callers |-> "idle"]
    /\ op = [c \in Callers |-> Idle]
    /\ reply = [c \in Callers |-> NoReply]
    /\ nOps = 0
    /\ nTimers = 0
    /\ ticker = NoTicker
    /\ last = [k \in KeySet |-> NoTrack]
    /\ cleared = FALSE
    /\ setVal = [t \in TimerIds |-> Nil]
    /\ removed = {}

\* The option lists a Set call may carry: each option is Expire or AfterFunc.
OptLists == {<<>>, <<"Expire">>, <<"AfterFunc">>}

\* ------------------------------------------------------------- callers
\* A new call runs in the first free slot.
Free(c) == pc[c] = "idle" /\ \A d \in Callers : d < c => pc[d] # "idle"

\* (Mutant: a Set that starts with the write and sends no cancel closure.)
SetStartNoCancel(c, k, v, opts) ==
    /\ Free(c)
    /\ nOps < MaxOps
    /\ nTimers + Len(opts) <= MaxTimers
    /\ op' = [Overlap(c, k) EXCEPT ![c] =
                [kind |-> "Set", key |-> k, val |-> v, opts |-> opts, tid |-> nTimers, i |-> 1,
                 armed |-> FALSE, solo |-> ~(SetBusy(c, k) \/ DelBusy(c, k)),
                 sclean |-> ~InFlight(k)]]
    /\ pc' = [pc EXCEPT ![c] = "write"]
    /\ nOps' = nOps + 1
    /\ nTimers' = nTimers + Len(opts)
    /\ last' = [last EXCEPT ![k] = NoTrack]
    /\ cleared' = FALSE
    /\ setVal' = [t \in TimerIds |-> IF t > nTimers /\ t <= nTimers + Len(opts) THEN v ELSE setVal[t]]
    /\ UNCHANGED <<items, expiries, timers, itemOp, expiryOp, reply, removed, ticker>>

\* Set, first send: the cancel closure is handed to loopExpiryOps.
SetStart(c, k, v, opts) ==
    /\ Free(c)
    /\ nOps < MaxOps
    /\ nTimers + Len(opts) <= MaxTimers
    /\ expiryOp = Idle
    /\ LET prev == IF opts = <<>> /\ last[k].w = "set" THEN last[k].tid ELSE 0 IN
        /\ expiryOp' = CancelOp(k, c, prev)
        /\ op' = [Overlap(c, k) EXCEPT ![c] =
                    [kind |-> "Set", key |-> k, val |-> v, opts |-> opts, tid |-> nTimers, i |-> 1,
                     armed |-> FALSE, solo |-> ~(SetBusy(c, k) \/ DelBusy(c, k)),
                     sclean |-> ~InFlight(k)]]
    /\ pc' = [pc EXCEPT ![c] = "write"]
    /\ nOps' = nOps + 1
    /\ nTimers' = nTimers + Len(opts)
    /\ last' = [last EXCEPT ![k] = NoTrack]
    /\ cleared' = FALSE
    /\ setVal' = [t \in TimerIds |-> IF t > nTimers /\ t <= nTimers + Len(opts) THEN v ELSE setVal[t]]
    /\ UNCHANGED <<items, expiries, timers, itemOp, reply, removed, ticker>>

\* Set returns: what is then known of its key.
Returned(c, t) ==
    LET o == op[c] IN
    [last EXCEPT ![o.key] =
        IF SetBusy(c, o.key) \/ DelBusy(c, o.key) THEN NoTrack
        ELSE SetTrack(o.val, t, ~InFlight(o.key), o.sclean /\ ~InFlight(o.key), o.armed, o.solo)]

\* Set, second send: the write is handed to loopItemOps; with no options Set returns.
SetWrite(c) ==
    /\ pc[c] = "write"
    /\ itemOp = Idle
    /\ itemOp' = SetOp(op[c].key, op[c].val)
    /\ IF op[c].opts = <<>>
         THEN /\ pc' = [pc EXCEPT ![c] = "idle"]
              /\ op' = [op EXCEPT ![c] = Idle]
              /\ last' = Returned(c, 0)
         ELSE /\ pc' = [pc EXCEPT ![c] = "option"]
              /\ UNCHANGED <<op, last>>
    /\ UNCHANGED <<items, expiries, timers, expiryOp, reply, nOps, nTimers, cleared, setVal, removed, ticker>>

\* Set, the option loop: option i hands its closure to loopExpiryOps; after the last, Set returns.
SetOption(c) ==
    /\ pc[c] = "option"
    /\ expiryOp = Idle
    /\ LET o == op[c] IN
        /\ expiryOp' = SchedOp(o.key, o.val, o.opts[o.i] = "AfterFunc", o.tid + o.i)
        /\ IF o.i = Len(o.opts)
             THEN /\ pc' = [pc EXCEPT ![c] = "idle"]
                  /\ op' = [op EXCEPT ![c] = Idle]
                  /\ last' = Returned(c, o.tid + o.i)
             ELSE /\ pc' = pc
                  /\ op' = [op EXCEPT ![c].i = o.i + 1]
                  /\ last' = last
    /\ UNCHANGED <<items, expiries, timers, itemOp, reply, nOps, nTimers, cleared, setVal, removed, ticker>>

\* Delete, first send.
DeleteStart(c, k) ==
    /\ Free(c)
    /\ nOps < MaxOps
    /\ expiryOp = Idle
    /\ expiryOp' = CancelOp(k, c, 0)
    /\ op' = [Overlap(c, k) EXCEPT ![c] = [kind |-> "Delete", key |-> k]]
    /\ pc' = [pc EXCEPT ![c] = "delete"]
    /\ nOps' = nOps + 1
    /\ last' = [last EXCEPT ![k] = IF last[k].w = "set" THEN NoTrack ELSE last[k]]
    /\ UNCHANGED <<items, expiries, timers, itemOp, reply, nTimers, cleared, setVal, removed, ticker>>

\* Delete, second send; Delete returns.
DeleteItem(c) ==
    /\ pc[c] = "delete"
    /\ itemOp = Idle
    /\ itemOp' = DeleteOp(op[c].key, 0)
    /\ pc' = [pc EXCEPT ![c] = "idle"]
    /\ op' = [op EXCEPT ![c] = Idle]
    /\ last' = [last EXCEPT ![op[c].key] =
                  IF SetBusy(c, op[c].key) THEN NoTrack ELSE DelTrack("delete")]
    /\ UNCHANGED <<items, expiries, timers, expiryOp, reply, nOps, nTimers, cleared, setVal, removed, ticker>>

\* (Mutant: a Clear that also stops every timer and empties the handle map.)
ClearAndCancel(c) ==
    /\ Free(c)
    /\ nOps < MaxOps
    /\ itemOp = Idle
    /\ itemOp' = ClearOp
    /\ nOps' = nOps + 1
    /\ timers' = [t \in TimerIds |-> IF timers[t].st = "pending" THEN Stopped(timers[t].cb)
                                       ELSE timers[t]]
    /\ expiries' = [k \in {} |-> 0]
    /\ UNCHANGED <<items, expiryOp, pc, op, reply, nTimers, last, cleared, setVal, removed, ticker>>

\* Clear: one send.
Clear(c) ==
    /\ Free(c)
    /\ nOps < MaxOps
    /\ itemOp = Idle
    /\ itemOp' = ClearOp
    /\ nOps' = nOps + 1
    /\ last' = [k \in KeySet |-> IF SetBusy(c, k) THEN NoTrack ELSE DelTrack("clear")]
    /\ cleared' = \A k \in KeySet : ~SetBusy(c, k)
    /\ op' = [d \in Callers |-> IF pc[d] \in {"write", "option"}
                                   THEN [op[d] EXCEPT !.solo = FALSE] ELSE op[d]]
    /\ UNCHANGED <<items, expiries, timers, expiryOp, pc, reply, nTimers, setVal, removed, ticker>>

\* Get, GetOK, Items, IsEmpty, Size, Keys: the send; the caller then waits on its
\* result channel.  exp is history: what was known when the read was sent.
ReadStart(c, kind, k) ==
    /\ Free(c)
    /\ nOps < MaxOps
    /\ itemOp = Idle
    /\ itemOp' = ReadOp(kind, k, c)
    /\ op' = [op EXCEPT ![c] = [kind |-> kind, key |-> k,
                                  exp |-> IF k \in KeySet THEN last[k]
                                          ELSE [w |-> IF cleared THEN "cleared" ELSE "none"]]]
    /\ pc' = [pc EXCEPT ![c] = "wait"]
    /\ nOps' = nOps + 1
    /\ UNCHANGED <<items, expiries, timers, expiryOp, reply, nTimers, last, cleared, setVal, removed, ticker>>

\* The receive from the result channel(s); the read returns.
ReadReturn(c) ==
    /\ pc[c] = "wait"
    /\ reply[c] # NoReply
    /\ reply' = [reply EXCEPT ![c] = NoReply]
    /\ pc' = [pc EXCEPT ![c] = "idle"]
    /\ op' = [op EXCEPT ![c] = Idle]
    /\ UNCHANGED <<items, expiries, timers, itemOp, expiryOp, nOps, nTimers, last, cleared, setVal, removed, ticker>>

\* ------------------------------------------------------------- lanes
\* (Mutant: the closure of GetOK blocks on its result channels, and the lane with it.)
ExecItemBlocking ==
    /\ itemOp # Idle
    /\ itemOp.kind # "GetOK"
    /\ itemOp' = Idle
    /\ CASE itemOp.kind = "set" ->
              items' = ApplySet(items, itemOp.key, itemOp.val) /\ reply' = reply
         [] itemOp.kind = "clear" ->
              items' = ApplyClear(items) /\ reply' = reply
         [] itemOp.kind = "delete" ->
              items' = ApplyDelete(items, itemOp.key) /\ reply' = reply
         [] OTHER ->
              /\ items' = items
              /\ \E order \in Orders(DOMAIN items) :
                    reply' = [reply EXCEPT ![itemOp.from] = ReadReply(itemOp, items, order)]
    /\ removed' = IF itemOp.kind = "delete" /\ itemOp.by # 0 /\ timers[itemOp.by].st = "fired"
                     THEN removed \cup {itemOp.by} ELSE removed
    /\ UNCHANGED <<expiries, timers, expiryOp, pc, op, nOps, nTimers, last, cleared, setVal, ticker>>

\* loopItemOps runs the closure it received.
ExecItem ==
    /\ itemOp # Idle
    /\ itemOp' = Idle
    /\ CASE itemOp.kind = "set" ->
              items' = ApplySet(items, itemOp.key, itemOp.val) /\ reply' = reply
         [] itemOp.kind = "clear" ->
              items' = ApplyClear(items) /\ reply' = reply
         [] itemOp.kind = "delete" ->
              items' = ApplyDelete(items, itemOp.key) /\ reply' = reply
         [] OTHER ->
              /\ items' = items
              /\ \E order \in Orders(DOMAIN items) :
                    reply' = [reply EXCEPT ![itemOp.from] = ReadReply(itemOp, items, order)]
    /\ removed' = IF itemOp.kind = "delete" /\ itemOp.by # 0 /\ timers[itemOp.by].st = "fired"
                     THEN removed \cup {itemOp.by} ELSE removed
    /\ UNCHANGED <<expiries, timers, expiryOp, pc, op, nOps, nTimers, last, cleared, setVal, ticker>>

\* The cancel closure of a Set with no options has run: whether the timer of the
\* expiring Set before it had fired by then.
Armed(o) ==
    LET a == timers[o.prev].st \in {"pending", "stopped"} IN
    IF pc[o.from] = "write"
      THEN /\ op' = [op EXCEPT ![o.from].armed = a]
           /\ last' = last
      ELSE /\ op' = op
           /\ last' = [last EXCEPT ![o.key] =
                         IF last[o.key].w = "set" THEN [last[o.key] EXCEPT !.armed = a]
                         ELSE last[o.key]]

\* loopExpiryOps runs the closure it received.
ExecExpiry ==
    /\ expiryOp # Idle
    /\ expiryOp' = Idle
    /\ IF expiryOp.kind = "cancel"
         THEN /\ timers' = CancelTimers(expiries, timers, expiryOp.key)
              /\ expiries' = CancelExpiries(expiries, expiryOp.key)
              /\ IF expiryOp.prev # 0 THEN Armed(expiryOp) ELSE UNCHANGED <<op, last>>
         ELSE /\ timers' = SchedTimers(expiries, timers, expiryOp)
              /\ expiries' = SchedExpiries(expiries, expiryOp)
              /\ UNCHANGED <<op, last>>
    /\ setVal' = Forget(timers', setVal)
    /\ UNCHANGED <<items, itemOp, pc, reply, nOps, nTimers, cleared, removed, ticker>>

\* ------------------------------------------------------------- timer goroutines
\* The duration elapses: the runtime starts the timer's function in its own goroutine.
Fire(t) ==
    /\ timers[t].st = "pending"
    /\ timers' = [timers EXCEPT ![t] = [st |-> "fired", key |-> timers[t].key, val |-> timers[t].val,
                                         cb |-> timers[t].cb, pc |-> "cancel"]]
    /\ LET k == timers[t].key IN
        /\ last' = [last EXCEPT ![k] =
                      IF last[k].w = "set" /\ last[k].tid # t
                        THEN [last[k] EXCEPT !.tclean = FALSE, !.sclean = FALSE] ELSE last[k]]
        /\ op' = [d \in Callers |-> IF pc[d] \in {"write", "option"} /\ op[d].key = k
                                       THEN [op[d] EXCEPT !.sclean = FALSE] ELSE op[d]]
    /\ UNCHANGED <<items, expiries, itemOp, expiryOp, pc, reply, nOps, nTimers, cleared, setVal, removed, ticker>>

\* (Mutant: a timer function that removes the item without cancelling the expiry.)
TimerCancelSkip(t) ==
    /\ timers[t].st = "fired"
    /\ timers[t].pc = "cancel"
    /\ timers' = [timers EXCEPT ![t].pc = "delete"]
    /\ UNCHANGED <<items, expiries, itemOp, expiryOp, pc, op, reply, nOps, nTimers, last, cleared, setVal, removed, ticker>>

\* c.Delete(key) of the timer's function, first send.
TimerCancel(t) ==
    /\ timers[t].st = "fired"
    /\ timers[t].pc = "cancel"
    /\ expiryOp = Idle
    /\ expiryOp' = CancelOp(timers[t].key, 0, 0)
    /\ timers' = [timers EXCEPT ![t].pc = "delete"]
    /\ UNCHANGED <<items, expiries, itemOp, pc, op, reply, nOps, nTimers, last, cleared, setVal, removed, ticker>>

\* (Mutant: a timer function that leaves out the delete of c.Delete(key).)
TimerDeleteSkip(t) ==
    /\ timers[t].st = "fired"
    /\ timers[t].pc = "delete"
    /\ timers' = IF timers[t].cb THEN [timers EXCEPT ![t].pc = "callback"]
                  ELSE [timers EXCEPT ![t] = Done(Nil)]
    /\ setVal' = Forget(timers', setVal)
    /\ UNCHANGED <<items, expiries, itemOp, expiryOp, pc, op, reply, nOps, nTimers, last,
                   cleared, removed, ticker>>

\* c.Delete(key) of the timer's function, second send; Expire's function ends here.
TimerDelete(t) ==
    /\ timers[t].st = "fired"
    /\ timers[t].pc = "delete"
    /\ itemOp = Idle
    /\ itemOp' = DeleteOp(timers[t].key, t)
    /\ IF timers[t].cb
         THEN /\ timers' = [timers EXCEPT ![t].pc = "callback"]
              /\ last' = last
         ELSE /\ timers' = [timers EXCEPT ![t] = Done(Nil)]
              /\ last' = Finished(t, timers[t].key)
    /\ setVal' = Forget(timers', setVal)
    /\ removed' = removed \ {t}
    /\ UNCHANGED <<items, expiries, expiryOp, pc, op, reply, nOps, nTimers, cleared, ticker>>

\* afterFunc(val) of AfterFunc's function.
TimerCallback(t) ==
    /\ timers[t].st = "fired"
    /\ timers[t].pc = "callback"
    /\ timers' = [timers EXCEPT ![t] = Done(CallbackArg(timers[t]))]
    /\ last' = Finished(t, timers[t].key)
    /\ setVal' = Forget(timers', setVal)
    /\ removed' = removed \ {t}
    /\ UNCHANGED <<items, expiries, itemOp, expiryOp, pc, op, reply, nOps, nTimers, cleared, ticker>>

\* afterFunc(val) panics: the timer's function has no recover, the panic unwinds
\* the timer's goroutine and the Go runtime terminates the process.
TimerPanic(t) ==
    /\ timers[t].st = "fired"
    /\ timers[t].pc = "callback"
    /\ timers' = [timers EXCEPT ![t].st = "panicked"]
    /\ UNCHANGED <<items, expiries, itemOp, expiryOp, pc, op, reply, nOps, nTimers, last,
                   cleared, setVal, removed, ticker>>

\* The process has terminated: no goroutine of it runs any more.
Crashed == \E t \in TimerIds : timers[t].st = "panicked"

\* ------------------------------------------------------------- ClearEvery
\* time.NewTicker(d): the channel C holds at most one tick (c); pc is the position
\* of the goroutine that ranges over C.  History: n counts the ticks the runtime
\* produced, d those that were dropped or discarded, k the Clear calls made.
NewTicker == [st |-> "running", c |-> 0, pc |-> "recv", n |-> 0, d |-> 0, k |-> 0]

\* The Clear calls the goroutine of ClearEvery still has to make for the ticks
\* produced so far: one for a tick waiting in C, one for a tick it has received.
Remaining(tk) ==
    IF tk.st = "none" THEN 0
    ELSE tk.c + (IF tk.pc = "clear" THEN 1 ELSE 0)

\* ClearEvery(d): makes the ticker, starts the goroutine and returns the ticker.
ClearEvery(c) ==
    /\ Free(c)
    /\ nOps < MaxOps
    /\ ticker = NoTicker
    /\ ticker' = NewTicker
    /\ nOps' = nOps + 1
    /\ UNCHANGED <<items, expiries, timers, itemOp, expiryOp, pc, op, reply, nTimers,
                   last, cleared, setVal, removed>>

\* (Mutant: a ticker that goes on ticking after Stop.)
TickAfterStop ==
    /\ ticker.st \in {"running", "stopped"}
    /\ ticker.n < MaxTicks
    /\ ticker' = [ticker EXCEPT !.c = 1, !.n = @ + 1, !.d = @ + ticker.c]
    /\ UNCHANGED <<items, expiries, timers, itemOp, expiryOp, pc, op, reply, nOps, nTimers,
                   last, cleared, setVal, removed>>

\* The period elapses: the runtime puts a tick into C, or drops it when C is full.
Tick ==
    /\ ticker.st = "running"
    /\ ticker.n < MaxTicks
    /\ ticker' = [ticker EXCEPT !.c = 1, !.n = @ + 1, !.d = @ + ticker.c]
    /\ UNCHANGED <<items, expiries, timers, itemOp, expiryOp, pc, op, reply, nOps, nTimers,
                   last, cleared, setVal, removed>>

\* "for range ticker.C": the goroutine receives a tick.
TickRecv ==
    /\ ticker.st \in {"running", "stopped"}
    /\ ticker.pc = "recv"
    /\ ticker.c = 1
    /\ ticker' = [ticker EXCEPT !.c = 0, !.pc = "clear"]
    /\ UNCHANGED <<items, expiries, timers, itemOp, expiryOp, pc, op, reply, nOps, nTimers,
                   last, cleared, setVal, removed>>

\* (Mutant: a goroutine that receives the ticks and never calls Clear.)
TickClearSkip ==
    /\ ticker.st \in {"running", "stopped"}
    /\ ticker.pc = "clear"
    /\ ticker' = [ticker EXCEPT !.pc = "recv"]
    /\ UNCHANGED <<items, expiries, timers, itemOp, expiryOp, pc, op, reply, nOps, nTimers,
                   last, cleared, setVal, removed>>

\* c.Clear() of the goroutine: one send to itemOps.
TickClear ==
    /\ ticker.st \in {"running", "stopped"}
    /\ ticker.pc = "clear"
    /\ itemOp = Idle
    /\ itemOp' = ClearOp
    /\ ticker' = [ticker EXCEPT !.pc = "recv", !.k = @ + 1]
    /\ last' = [k \in KeySet |-> IF SetBusy(0, k) THEN NoTrack ELSE DelTrack("clear")]
    /\ cleared' = \A k \in KeySet : ~SetBusy(0, k)
    /\ op' = [d \in Callers |-> IF pc[d] \in {"write", "option"}
                                   THEN [op[d] EXCEPT !.solo = FALSE] ELSE op[d]]
    /\ UNCHANGED <<items, expiries, timers, expiryOp, pc, reply, nOps, nTimers, setVal, removed>>

\* ticker.Stop() on the ticker ClearEvery returned: no tick is produced any more.
\* A tick waiting in C stays there or is discarded, depending on the Go release.
TickerStop(c) ==
    /\ Free(c)
    /\ nOps < MaxOps
    /\ ticker.st = "running"
    /\ \E keep \in BOOLEAN :
          ticker' = [ticker EXCEPT !.st = "stopped", !.c = IF keep THEN @ ELSE 0,
                                   !.d = IF keep THEN @ ELSE @ + ticker.c]
    /\ nOps' = nOps + 1
    /\ UNCHANGED <<items, expiries, timers, itemOp, expiryOp, pc, op, reply, nTimers,
                   last, cleared, setVal, removed>>

TickStep == Tick \/ TickRecv \/ TickClear

\* ------------------------------------------------------------- specification
CallerStep(c) ==
    \/ \E k \in KeySet, v \in ValSet, opts \in OptLists : SetStart(c, k, v, opts)
    \/ SetWrite(c)
    \/ SetOption(c)
    \/ \E k \in KeySet : DeleteStart(c, k)
    \/ DeleteItem(c)
    \/ Clear(c)
    \/ \E kind \in KeyedReads, k \in KeySet : ReadStart(c, kind, k)
    \/ \E kind \in ReadKinds \ KeyedReads : ReadStart(c, kind, <<>>)
    \/ ReadReturn(c)

TimerStep ==
    \E t \in TimerIds : Fire(t) \/ TimerCancel(t) \/ TimerDelete(t) \/ TimerCallback(t)

Next == (\E c \in Callers : CallerStep(c)) \/ ExecItem \/ ExecExpiry \/ TimerStep

\* Any number of goroutines call the cache, timers fire at any time.
Spec == Init /\ [][Next]_vars

\* The Go scheduler runs every goroutine that can run, a send on a channel whose
\* receiver is waiting completes, and a timer that is not stopped fires.
Fairness ==
    /\ WF_vars(ExecItem)
    /\ WF_vars(ExecExpiry)
    /\ \A t \in TimerIds :
        /\ WF_vars(Fire(t))
        /\ WF_vars(TimerCancel(t))
        /\ WF_vars(TimerDelete(t))
        /\ WF_vars(TimerCallback(t))
    /\ \A c \in Callers :
        /\ WF_vars(SetWrite(c))
        /\ WF_vars(SetOption(c))
        /\ WF_vars(DeleteItem(c))
        /\ WF_vars(ReadReturn(c))

FairSpec == Spec /\ Fairness

\* One goroutine calls the cache, as in the tests other than the stress test;
\* the lanes and the timers run beside it.
SeqNext == CallerStep(1) \/ ExecItem \/ ExecExpiry \/ TimerStep

FairSeqSpec == Init /\ [][SeqNext]_vars /\ Fairness

\* One goroutine calls the cache and ClearEvery; the ticker ticks while it runs.
TickNext ==
    \/ CallerStep(1)
    \/ ClearEvery(1)
    \/ TickerStop(1)
    \/ TickStep
    \/ ExecItem
    \/ ExecExpiry
    \/ TimerStep

\* A running ticker keeps ticking and its goroutine keeps running.
TickFairness == WF_vars(Tick) /\ WF_vars(TickRecv) /\ WF_vars(TickClear)

FairTickSpec == Init /\ [][TickNext]_vars /\ Fairness /\ TickFairness

\* One goroutine calls the cache and the callbacks given to AfterFunc may panic.
PanicNext ==
    \/ ~Crashed /\ CallerStep(1)
    \/ ~Crashed /\ ExecItem
    \/ ~Crashed /\ ExecExpiry
    \/ ~Crashed /\ TimerStep
    \/ ~Crashed /\ \E t \in TimerIds : TimerPanic(t)

PanicSpec == Init /\ [][PanicNext]_vars

\* ------------------------------------------------------------- properties
\* A read by caller c has been answered and not yet received.
Answered(c) == pc[c] = "wait" /\ reply[c] # NoReply
\* The answer to a Get or GetOK says the key holds v.
Holds(c, v) == reply[c].val = v /\ (reply[c].kind = "GetOK" => reply[c].ok)
\* The answer to a Get or GetOK says the key is absent.
Absent(c) == reply[c].val = Nil /\ (reply[c].kind = "GetOK" => ~reply[c].ok)

\* C1, as stated: a Get or GetOK of k sent after a Set(k, v) with no options
\* returned, with no caller's Set(k, _), Delete(k) or Clear in progress in
\* between, answers v (and true).  (Read in the claim's favour: nor did another
\* caller's Set(k, _) or Delete(k) overlap the Set itself.)
C1_AsStated ==
    \A c \in Callers :
        (Answered(c) /\ op[c].kind \in KeyedReads /\ op[c].exp.w = "set" /\ op[c].exp.tid = 0
            /\ op[c].exp.solo)
            => Holds(c, op[c].exp.val)

\* C1, as amended: the same, provided also that no timer of k (made by an
\* earlier expiring Set) fired or was running its Delete(k) in between.
C1_ReadYourWrite ==
    \A c \in Callers :
        (Answered(c) /\ op[c].kind \in KeyedReads /\ op[c].exp.w = "set" /\ op[c].exp.tid = 0
            /\ op[c].exp.tclean)
            => Holds(c, op[c].exp.val)

\* C1's case: a GetOK sent after such a Set has been answered (v, true).
C1_Witness ==
    \E c \in Callers :
        /\ Answered(c) /\ op[c].kind = "GetOK" /\ op[c].exp.w = "set" /\ op[c].exp.tid = 0
        /\ op[c].exp.tclean /\ reply[c].ok /\ reply[c].val = op[c].exp.val

\* C2, the part that fails as stated: a GetOK of k sent after Set(k, v, Expire(d))
\* returned, with no caller's Set(k, _), Delete(k) or Clear in progress in between
\* (nor overlapping the Set), answers (v, true) as long as the timer of that Set
\* has not fired.
C2_AsStated ==
    \A c \in Callers :
        (Answered(c) /\ op[c].kind = "GetOK" /\ op[c].exp.w = "set" /\ op[c].exp.tid # 0
            /\ op[c].exp.solo /\ timers[op[c].exp.tid].st \notin {"fired", "done"})
            => Holds(c, op[c].exp.val)

\* The same, provided also that no other timer of k fired or was running its
\* Delete(k) in between or while the Set was in progress.
C2_BeforeExpiry ==
    \A c \in Callers :
        (Answered(c) /\ op[c].kind = "GetOK" /\ op[c].exp.w = "set" /\ op[c].exp.tid # 0
            /\ op[c].exp.solo /\ op[c].exp.sclean
            /\ timers[op[c].exp.tid].st \notin {"fired", "done"})
            => Holds(c, op[c].exp.val)

\* A GetOK of k sent after the function of the timer of Set(k, v, Expire(d)) has
\* returned, with no Set(k, _) in progress since that Set returned, answers (_, false).
C2_AfterExpiry ==
    \A c \in Callers :
        (Answered(c) /\ op[c].kind = "GetOK" /\ op[c].exp.w = "del" /\ op[c].exp.by = "timer")
            => Absent(c)

\* Once a timer of k is pending, k is eventually absent, unless the timer is stopped.
C2_EventuallyAbsent ==
    \A t \in TimerIds, k \in KeySet :
        (timers[t].st = "pending" /\ timers[t].key = k)
            ~> (timers[t].st = "stopped" \/ k \notin DOMAIN items)

\* C2, as amended: after Set(k, v, Expire(d)) has returned, and with no caller's
\* Set(k, _), Delete(k) or Clear in between, GetOK(k) returns (v, true) as long as
\* the timer has not fired and no earlier timer of k fired or was running its
\* Delete(k) since the Set started; once the timer's function has returned, GetOK(k)
\* returns (_, false); and under fairness k is eventually absent unless the
\* timer is stopped first.
C2_Expiry == [](C2_BeforeExpiry /\ C2_AfterExpiry) /\ C2_EventuallyAbsent

\* C2's case: a GetOK sent after the timer's function returned was answered
\* (_, false), the timer's delete having removed the key.
C2_Witness ==
    \E c \in Callers :
        /\ Answered(c) /\ op[c].kind = "GetOK" /\ op[c].exp.w = "del" /\ op[c].exp.by = "timer"
        /\ ~reply[c].ok

\* C3, as stated: once Set(k, v2) with no options has returned after
\* Set(k, v1, Expire(d)) by the same caller, the timer of the first Set not having
\* fired when the cancel closure of the second ran, and with no caller's Set(k, _),
\* Delete(k) or Clear since the second Set started, the handle map has no entry
\* for k and k holds v2 (as soon as loopItemOps has run the write).
C3_AsStated ==
    \A k \in KeySet :
        (last[k].w = "set" /\ last[k].tid = 0 /\ last[k].armed /\ last[k].solo)
            => /\ k \notin DOMAIN expiries
               /\ (itemOp = SetOp(k, last[k].val) \/ Lookup(items, k) = last[k].val)

\* C3, as amended: the same, provided no timer of a Set(k, _) before the first one
\* was running its function when the second Set returned; then also no timer of k
\* is pending or running, so nothing removes k by expiry.
C3_SetClearsExpiry ==
    \A k \in KeySet :
        (last[k].w = "set" /\ last[k].tid = 0 /\ last[k].armed /\ last[k].solo /\ last[k].tclean)
            => /\ k \notin DOMAIN expiries
               /\ (itemOp = SetOp(k, last[k].val) \/ Lookup(items, k) = last[k].val)
               /\ \A t \in TimerIds : timers[t].st \in {"pending", "fired"} => timers[t].key # k

\* C3's case: the second Set has returned and its write has been run, the timer of
\* the first Set having been stopped by its cancel closure.
C3_Witness ==
    \E k \in KeySet :
        /\ last[k].w = "set" /\ last[k].tid = 0 /\ last[k].armed /\ last[k].solo /\ last[k].tclean
        /\ k \in DOMAIN items /\ items[k] = last[k].val
        /\ \E t \in TimerIds : timers[t] = Stopped(FALSE)

\* C4: when the cancel closure of a caller's Delete(k) or Set(k, ...) runs while a
\* timer of k has not fired, the timer is stopped; a stopped timer stays stopped:
\* it never fires, its afterFunc is never called and no delete is sent for it.
C4_CancelIsFinal ==
    [][/\ (ExecExpiry /\ expiryOp.kind = "cancel" /\ expiryOp.from # 0)
            => \A t \in TimerIds :
                  (timers[t].st = "pending" /\ timers[t].key = expiryOp.key)
                      => timers'[t] = Stopped(timers[t].cb)
       /\ \A t \in TimerIds :
            timers[t].st = "stopped"
                => /\ timers'[t] = timers[t]
                   /\ ~(itemOp'.kind = "delete" /\ itemOp'.by = t)]_vars

\* C4's case: the timer of a Set(k, v, AfterFunc(d, cb)) has been stopped.
C4_Witness == \E t \in TimerIds : timers[t] = Stopped(TRUE) /\ expiryOp = Idle

\* C5: the cancel closure on a key with no handle changes neither the handle map
\* nor any timer; the delete closure on an absent key changes no item, and on a
\* present key removes that key only; a GetOK(k) sent after Delete(k) returned,
\* with no Set(k, _) in progress since, answers (_, false), also after a second
\* Delete(k).
C5_DeleteAbsent ==
    /\ [](\A c \in Callers :
            (Answered(c) /\ op[c].kind = "GetOK" /\ op[c].exp.w = "del" /\ op[c].exp.by = "delete")
                => Absent(c))
    /\ [][/\ (ExecExpiry /\ expiryOp.kind = "cancel" /\ expiryOp.key \notin DOMAIN expiries)
               => (expiries' = expiries /\ timers' = timers)
          /\ (ExecItem /\ itemOp.kind = "delete")
               => /\ itemOp.key \notin DOMAIN items => items' = items
                  /\ items' = [k \in (DOMAIN items) \ {itemOp.key} |-> items[k]]]_vars

\* C5's case: a GetOK(k) sent after Delete(k) returned was answered (_, false)
\* while another key is stored.
C5_Witness ==
    \E c \in Callers :
        /\ Answered(c) /\ op[c].kind = "GetOK" /\ op[c].exp.w = "del" /\ op[c].exp.by = "delete"
        /\ ~reply[c].ok
        /\ items # EmptyMap

\* C6, as stated: when afterFunc is called, loopItemOps has already run the delete
\* sent by the timer's function.
C6_AsStated == [][\A t \in TimerIds : TimerCallback(t) => t \in removed]_vars

\* The delete of the timer's function has been received by loopItemOps, which is
\* running it or has run it, whenever afterFunc is about to be called.
C6_DeleteHandedOver ==
    \A t \in TimerIds :
        (timers[t].st = "fired" /\ timers[t].pc = "callback")
            => (itemOp = DeleteOp(timers[t].key, t) \/ t \in removed)

\* afterFunc is called by AfterFunc's timers only, and at most once by each.
C6_CalledOnce ==
    [][\A t \in TimerIds :
          /\ TimerCallback(t) => (timers[t].cb /\ timers'[t].st = "done" /\ timers'[t].arg # Nil)
          /\ timers[t].st = "done" => timers'[t] = timers[t]]_vars

\* A pending timer of AfterFunc is eventually stopped or calls afterFunc.
C6_EventuallyCalled ==
    \A t \in TimerIds :
        (timers[t].st = "pending" /\ timers[t].cb)
            ~> (timers[t].st = "stopped" \/ (timers[t].st = "done" /\ timers[t].arg # Nil))

\* C6, as amended: for Set(k, v, AfterFunc(d, cb)) whose timer is not stopped, cb is
\* called exactly once, and when it is called loopItemOps has received the delete
\* of k sent by the timer's function: it has run it or runs it before any
\* closure sent later.
C6_Callback == []C6_DeleteHandedOver /\ C6_CalledOnce /\ C6_EventuallyCalled

\* C6's case: a timer's function has called afterFunc and returned.
C6_Witness == \E t \in TimerIds : timers[t].st = "done" /\ timers[t].arg # Nil

\* C7: afterFunc is called with the value passed to the Set call that carried the
\* AfterFunc option, whatever the item map holds then.
C7_CallbackValue ==
    [][\A t \in TimerIds : TimerCallback(t) => timers'[t] = Done(setVal[t])]_vars

\* C7's case: afterFunc was called with a value that no key holds any more.
C7_Witness ==
    \E t \in TimerIds :
        /\ timers[t].st = "done" /\ timers[t].arg # Nil
        /\ \A k \in KeySet : Lookup(items, k) # timers[t].arg
        /\ items # EmptyMap

\* C8: once Clear has returned, and with no Set in progress since, the item map
\* is empty as soon as loopItemOps has run the clear, and Keys, Size, IsEmpty and
\* Items sent after the return answer empty, 0, true and the empty map.
C8_ClearEmpties ==
    /\ cleared => (itemOp = ClearOp \/ items = EmptyMap)
    /\ \A c \in Callers :
        (Answered(c) /\ op[c].kind \in ReadKinds \ KeyedReads /\ op[c].exp.w = "cleared")
            => CASE op[c].kind = "Keys" -> reply[c].keys = <<>>
                 [] op[c].kind = "Size" -> reply[c].n = 0
                 [] op[c].kind = "IsEmpty" -> reply[c].b
                 [] op[c].kind = "Items" -> reply[c].map = EmptyMap

\* C8's case: a Size sent after Clear returned was answered.
C8_Witness ==
    \E c \in Callers : Answered(c) /\ op[c].kind = "Size" /\ op[c].exp.w = "cleared"

\* C9: neither the send of Clear nor its closure changes the handle map or any
\* timer; the delete closure sent by a timer's function for a key that is absent
\* leaves the item map as it was.
C9_ClearKeepsTimers ==
    [][/\ \A c \in Callers : Clear(c) => (expiries' = expiries /\ timers' = timers)
       /\ (ExecItem /\ itemOp.kind = "clear")
            => (expiries' = expiries /\ timers' = timers /\ items' = EmptyMap)
       /\ (ExecItem /\ itemOp.kind = "delete" /\ itemOp.by # 0 /\ itemOp.key \notin DOMAIN items)
            => (items' = items /\ expiries' = expiries /\ timers' = timers)]_vars

\* C9's case: after a Clear, loopItemOps holds the delete sent by a timer that
\* fired, and the key is absent.
C9_Witness ==
    /\ cleared
    /\ itemOp.kind = "delete" /\ itemOp.by # 0 /\ itemOp.key \notin DOMAIN items

\* Lexicographic order on strings, stated directly.
LexLess(s, t) ==
    \E i \in 1..Len(t) :
        /\ \A j \in 1..(i - 1) : j <= Len(s) /\ s[j] = t[j]
        /\ (i > Len(s) \/ s[i] < t[i])

\* What a caller sees in an answer: the lane's own map if the answer were that map.
Seen(r) == IF r.kind = "Items" /\ r.live THEN items ELSE r

\* C10: the answer of a read is computed from the item map as it is when
\* loopItemOps runs the read's closure: Items is that map, Keys its keys in
\* ascending lexicographic order without duplicates, Size their number, IsEmpty
\* whether that number is 0; and an answer does not change afterwards.
C10_Snapshot ==
    [][/\ (ExecItem /\ itemOp.kind \in ReadKinds)
            => LET r == reply'[itemOp.from]
                   n == Cardinality(DOMAIN items)
               IN  CASE itemOp.kind = "Items" -> r.map = items
                     [] itemOp.kind = "Keys" ->
                          /\ Len(r.keys) = n
                          /\ {r.keys[i] : i \in 1..Len(r.keys)} = DOMAIN items
                          /\ \A i, j \in 1..Len(r.keys) : i < j => LexLess(r.keys[i], r.keys[j])
                     [] itemOp.kind = "Size" -> r.n = n
                     [] itemOp.kind = "IsEmpty" -> r.b = (n = 0)
                     [] itemOp.kind = "Get" -> r.val = Lookup(items, itemOp.key)
                     [] itemOp.kind = "GetOK" ->
                          r.val = Lookup(items, itemOp.key) /\ r.ok = (itemOp.key \in DOMAIN items)
       /\ \A c \in Callers :
            reply[c] # NoReply => (reply'[c] = NoReply \/ Seen(reply[c])' = Seen(reply[c]))]_vars

\* C10's case: Keys was answered with two keys, and the item map has changed since.
C10_Witness ==
    \E c \in Callers :
        /\ Answered(c) /\ op[c].kind = "Keys" /\ Len(reply[c].keys) = 2
        /\ DOMAIN items # {reply[c].keys[1], reply[c].keys[2]}

\* Every Clear the goroutine of ClearEvery is running reaches loopItemOps, which
\* runs it; and while the ticker runs and has ticks to come, a populated item map
\* becomes empty.
C11_EventuallyEmpty ==
    /\ (ticker.st # "none" /\ ticker.pc = "clear") ~> (itemOp = ClearOp)
    /\ (itemOp = ClearOp) ~> (items = EmptyMap)
    /\ (ticker.st = "running" /\ ticker.n < MaxTicks /\ items # EmptyMap)
          ~> (items = EmptyMap \/ ticker.st = "stopped")

\* C11, as stated: the item map eventually becomes empty, and every tick produced
\* is waiting in C, is being handled by the goroutine, or had its Clear called.
C11_AsStated ==
    /\ C11_EventuallyEmpty
    /\ [](ticker.st # "none" => ticker.n = ticker.k + Remaining(ticker))

\* C11, as amended: the same, except that a tick produced while another one is
\* still waiting in C is dropped (and a waiting tick may be discarded by Stop).
C11_ClearEvery ==
    /\ C11_EventuallyEmpty
    /\ [](ticker.st # "none" => ticker.n = ticker.k + Remaining(ticker) + ticker.d)

\* C11's case: ClearEvery was called, one key was set, and the Clear of the
\* ticker's goroutine is in loopItemOps, about to empty the populated map.
C11_Witness ==
    /\ nOps = 2 /\ ticker.st = "running" /\ ticker.k = 1
    /\ items # EmptyMap /\ itemOp = ClearOp

\* C12, as stated: once Stop has returned, the goroutine of ClearEvery calls
\* Clear no more.
C12_AsStated == [][ticker.st = "stopped" => ticker'.k = ticker.k]_vars

\* C12, as amended: once Stop has returned no tick is produced any more, and the
\* goroutine calls Clear only for the ticks produced before (at most two: one
\* waiting in C and one it has received), after which it calls Clear no more; no
\* step of the ticker or of its goroutine changes the item map, and the clear
\* closure only empties it.
C12_StopIsFinal ==
    /\ [][/\ ticker.st = "stopped"
               => /\ ticker'.st = "stopped"
                  /\ ticker'.n = ticker.n
                  /\ ticker'.k - ticker.k = Remaining(ticker) - Remaining(ticker')
                  /\ ticker'.k >= ticker.k
          /\ (ticker' # ticker) => items' = items
          /\ (ExecItem /\ itemOp = ClearOp) => items' = EmptyMap]_vars
    /\ [](Remaining(ticker) <= 2)
    /\ (ticker.st = "stopped") ~> [](ticker.st = "stopped" /\ Remaining(ticker) = 0)

\* C12's case: Stop has returned, the goroutine has called Clear and has no tick
\* left, and a key set afterwards is stored.
C12_Witness ==
    /\ ticker.st = "stopped" /\ Remaining(ticker) = 0 /\ ticker.k >= 1
    /\ items # EmptyMap /\ itemOp = Idle /\ nOps = MaxOps

\* Something is in progress: a call, a closure in a lane, a timer's function or
\* a Clear of the ticker's goroutine.
Busy ==
    \/ \E c \in Callers : pc[c] # "idle"
    \/ itemOp # Idle
    \/ expiryOp # Idle
    \/ \E t \in TimerIds : timers[t].st = "fired"
    \/ (ticker.st # "none" /\ ticker.pc = "clear")

\* A step that continues what is in progress (not the start of a new call).
Progress ==
    \/ ExecItem
    \/ ExecExpiry
    \/ TickClear
    \/ \E t \in TimerIds : TimerCancel(t) \/ TimerDelete(t) \/ TimerCallback(t)
    \/ \E c \in Callers : SetWrite(c) \/ SetOption(c) \/ DeleteItem(c) \/ ReadReturn(c)

\* A lane that holds a closure can run it: the closure of a read finds its
\* result channel empty and its caller waiting, and no closure sends to a lane.
C13_LanesNeverBlock ==
    /\ itemOp # Idle => ENABLED ExecItem
    /\ expiryOp # Idle => ENABLED ExecExpiry
    /\ itemOp.kind \in ReadKinds => (reply[itemOp.from] = NoReply /\ pc[itemOp.from] = "wait")
    /\ Busy => ENABLED Progress

C14_AsStated ==
    \A u \in TimerIds :
        (/\ timers[u].st = "panicked"
         /\ \/ expiryOp # Idle
            \/ pc[1] # "idle"
            \/ \E t \in TimerIds : timers[t].st = "pending" /\ timers[t].key # timers[u].key)
        => ENABLED PanicNext

\* Every call has returned, every timer was stopped or has fired and its
\* function has returned.
Settled ==
    /\ \A c \in Callers : pc[c] = "idle"
    /\ \A t \in TimerIds : timers[t].st \in {"none", "stopped", "done"}

\* C15 as stated: whenever every call has returned and every timer is stopped or
\* has run its function, the expiries map is empty.
C15_AsStated == Settled => expiries = EmptyMap

\* C15: whenever every call has returned, every timer is stopped or has run its
\* function, and both lanes have run every closure they received, the expiries
\* map is empty.
C15_NoDanglingHandle ==
    (Settled /\ itemOp = Idle /\ expiryOp = Idle) => expiries = EmptyMap

\* C15's case: all is quiet after one timer has fired and another was stopped.
C15_Witness ==
    /\ Settled /\ itemOp = Idle /\ expiryOp = Idle
    /\ timers[1].st = "done" /\ timers[2].st = "stopped"
    /\ pc[2] = "idle" /\ op[2] = Idle /\ nOps = MaxOps

\* Timer t is the handle stored for key k.
Stored(e, k, t) == k \in DOMAIN e /\ e[k] = t

\* C16: every pending timer is the handle the expiries map stores for its key,
\* so no key has two pending timers; and the step that replaces a handle or
\* removes it from the map leaves that timer not pending.
C16_OneHandle ==
    /\ [](\A t \in TimerIds : timers[t].st = "pending" => Stored(expiries, timers[t].key, t))
    /\ [](\A t, u \in TimerIds :
            (timers[t].st = "pending" /\ timers[u].st = "pending" /\ timers[t].key = timers[u].key)
            => t = u)
    /\ [][\A k \in KeySet, t \in TimerIds :
            (Stored(expiries, k, t) /\ ~Stored(expiries', k, t)) => timers'[t].st # "pending"]_vars

\* C16's case: two Sets with an expiry were made and nothing else; the timer of
\* the first was stopped, which only a closure of the second on the same key
\* does, and the timer of the second is pending and stored.
C16_Witness ==
    /\ nOps = 2 /\ nTimers = 2 /\ expiryOp = Idle
    /\ timers[1].st = "stopped" /\ timers[2].st = "pending"
    /\ Stored(expiries, timers[2].key, 2)
    /\ Cardinality(DOMAIN expiries) = 1

\* C17 as stated (its consequence for the values): when nothing is in progress
\* and the expiries map holds a pending timer for a key that is in the item map,
\* the item's value is the one written by the Set that scheduled the timer.
C17_AsStated ==
    ~Busy =>
        \A k \in DOMAIN expiries :
            (timers[expiries[k]].st = "pending" /\ k \in DOMAIN items)
            => items[k] = timers[expiries[k]].val

\* The cancel closure of caller c's Set or Delete is in the expiry lane.
CancelHanded(c) ==
    expiryOp.kind = "cancel" /\ expiryOp.from = c /\ expiryOp.key = op[c].key

\* C18: when a Set hands its write, or a Delete its delete, to the item lane,
\* its cancel closure has been handed to the expiry lane before: it is still
\* there, or it has run and the key has no handle.
C18_CancelFirst ==
    [][\A c \in Callers :
        (SetWrite(c) \/ DeleteItem(c)) => (CancelHanded(c) \/ op[c].key \notin DOMAIN expiries)]_vars

\* C18's case: the write of a Set is in the item lane while its cancel closure
\* is still in the expiry lane and the timer of the key is pending.
C18_Witness ==
    /\ itemOp.kind = "set" /\ pc[1] = "idle"
    /\ expiryOp.kind = "cancel" /\ expiryOp.from = 1 /\ expiryOp.key = itemOp.key
    /\ \E t \in TimerIds : Stored(expiries, itemOp.key, t) /\ timers[t].st = "pending"

\* C19 as stated: the cancel closure sent by a fired timer's function stops no
\* timer that is still pending and removes no such timer's handle (a pending
\* timer is not the one that fired, so it is a newer handle of the key).
C19_AsStated ==
    [][(ExecExpiry /\ expiryOp.kind = "cancel" /\ expiryOp.from = 0) =>
         \A t \in TimerIds :
            timers[t].st = "pending" =>
                (timers'[t].st = "pending" /\ Stored(expiries', timers[t].key, t))]_vars

\* Set(k, v2) with no options has returned and its write has run, no caller's
\* Set(k, _), Delete(k) or Clear overlapped it or came after it, and k is absent.
Erased(k) ==
    /\ last[k].w = "set" /\ last[k].tid = 0 /\ last[k].solo
    /\ itemOp = Idle
    /\ k \notin DOMAIN items

\* C20: the overwrite of Set(k, v2) is erased only by the race: k is absent in
\* such a state only if the timer of the Set before had fired when the cancel
\* closure of Set(k, v2) ran, or a timer of k fired or was running its function
\* after that; and the state is reachable (C20_Witness).
C20_KnownRace ==
    \A k \in KeySet : Erased(k) => (~last[k].armed \/ ~last[k].tclean)

\* C20's case: the only calls made are Set(k, v1, Expire(d)) and then Set(k, v2);
\* the timer fired before the cancel closure of the second Set ran, its delete
\* ran after the write of v2, and k is absent after both have returned.
C20_Witness ==
    /\ nOps = 2 /\ nTimers = 1 /\ pc[1] = "idle" /\ pc[2] = "idle"
    /\ expiryOp = Idle /\ timers[1].st = "done"
    /\ \E k \in KeySet : Erased(k) /\ ~last[k].armed
====
